---- MODULE Spec2Model ----
(***************************************************************************)
(* Model of cloud_dns_forwarding_inspector_standalone.py: the resolution   *)
(* of a VM's VPC network, the per-project listing of forwarding zones, the *)
(* binding analysis loop of analyze_forwarding_zones and the error         *)
(* handling of main.                                                       *)
(*                                                                         *)
(* A Python string is a sequence of tokens; the token "/" is the only one  *)
(* that contains a slash, and two name tokens are never adjacent, so a     *)
(* path segment is one name token or the empty string "".                  *)
(***************************************************************************)
EXTENDS Integers, Sequences, FiniteSets, TLC

VARIABLES
    inventory,        \* what gcloud answers: per project, ok/failed and the managed zones
    vm_project,       \* analyze_forwarding_zones parameter
    vm_vpc,           \* analyze_forwarding_zones parameter
    all_projects,     \* analyze_forwarding_zones parameter
    pidx,             \* position of `for project in all_projects`
    zones,            \* local `zones` of the current project
    zidx,             \* position of `for zone in zones`
    nidx,             \* position of `for net in networks`
    output,           \* local `output`
    dns_names_seen,   \* local `dns_names_seen`
    pc,               \* control position
    exc,              \* the exception in flight or handled ("none" when there is none)
    stdout,           \* what has been printed, in order
    gcloud_calls,     \* the gcloud commands run so far, in order
    history           \* results of the completed calls of analyze_forwarding_zones

vars == <<inventory, vm_project, vm_vpc, all_projects, pidx, zones, zidx, nidx,
          output, dns_names_seen, pc, exc, stdout, gcloud_calls, history>>

----------------------------------------------------------------------------
(* Bounds of the model *)

\* longest project list handed to analyze_forwarding_zones
MaxProjects == 2
\* most network references in the whole inventory
MaxBindings == 2

----------------------------------------------------------------------------
(* Python strings *)

Slash == "/"

\* str.split('/'): the segments between slashes, "" for an empty one
RECURSIVE PySplit(_)
PySplit(s) ==
    IF s = <<>> THEN <<"">>
    ELSE LET init == PySplit(SubSeq(s, 1, Len(s) - 1))
             last == s[Len(s)]
         IN  IF last = Slash THEN Append(init, "")
             ELSE [init EXCEPT ![Len(init)] = last]

\* sub in s
PyIn(sub, s) ==
    \E i \in 0..(Len(s) - Len(sub)) : SubSeq(s, i + 1, i + Len(sub)) = sub

\* ', '.join(xs)
RECURSIVE PyJoin(_)
PyJoin(xs) ==
    IF xs = <<>> THEN <<>>
    ELSE IF Len(xs) = 1 THEN <<xs[1]>>
    ELSE <<xs[1], ", ">> \o PyJoin(Tail(xs))

----------------------------------------------------------------------------
(* The JSON that gcloud returns *)

Projects == {"p1", "p2"}
DnsNames == {"corp.internal.", "lab.internal."}

\* the selfLink of network n of project p
NetUrl(p, n) ==
    <<"https:", Slash, Slash, "www.googleapis.com", Slash, "compute", Slash, "v1",
      Slash, "projects", Slash, p, Slash, "global", Slash, "networks", Slash, n>>

\* projects/p/global/networks/n
RelPath(p, n) ==
    <<"projects", Slash, p, Slash, "global", Slash, "networks", Slash, n>>

\* an element of privateVisibilityConfig.networks: a dict (with or without the
\* key networkUrl) or a plain string
DictNet(u) == [isDict |-> TRUE, hasUrl |-> TRUE, url |-> u]
DictNoUrl  == [isDict |-> TRUE, hasUrl |-> FALSE, url |-> <<>>]
StrNet(u)  == [isDict |-> FALSE, hasUrl |-> TRUE, url |-> u]

\* references whose shape the code reads as intended
PlainRefs == {StrNet(<<"vpc-a">>), StrNet(<<"vpc-b">>)}

\* every shape of reference, the malformed ones included
AllRefs ==
    PlainRefs \cup
    { DictNet(NetUrl("p2", "vpc-a")),
      StrNet(RelPath("p2", "vpc-a")),
      StrNet(<<Slash>> \o RelPath("p2", "vpc-a")),
      StrNet(<<Slash, Slash, "dns.example">> \o <<Slash>> \o RelPath("p2", "vpc-a")),
      DictNoUrl }

\* forwardingConfig: absent, or a dict (gcloud always writes its "kind" key, so a
\* present dict is truthy) whose targetNameServers may be missing or empty
NoForwarding  == [present |-> FALSE, targetNameServers |-> <<>>]
Forwarding(t) == [present |-> TRUE, targetNameServers |-> t]

OneTarget == Forwarding(<<"10.0.0.1">>)
AllForwardings ==
    {NoForwarding, Forwarding(<<>>), OneTarget, Forwarding(<<"10.0.0.2", "10.0.0.3">>)}

Zone(n, d, f, nets) ==
    [name |-> n, dnsName |-> d, forwardingConfig |-> f, networks |-> nets]

RECURSIVE SeqsUpTo(_, _)
SeqsUpTo(S, n) ==
    IF n = 0 THEN {<<>>}
    ELSE LET shorter == SeqsUpTo(S, n - 1)
         IN  shorter \cup {Append(q, x) : q \in {r \in shorter : Len(r) = n - 1}, x \in S}

Listed(zs) == [ok |-> TRUE, zones |-> zs]
ListingFails == [ok |-> FALSE, zones |-> <<>>]

\* what a project without zones of interest answers: nothing, or an error
Empty == {Listed(<<>>)}
EmptyOrFailing == {Listed(<<>>), ListingFails}

\* inventories of at most two zones and at most MaxBindings network references,
\* with DNS names D, forwarding configurations F and references R; a project
\* without zones answers one of Rest
Inventories(D, F, R, Rest) ==
    LET nets == SeqsUpTo(R, MaxBindings)
        Z1   == {Zone("z1", d, f, n) : d \in D, f \in F, n \in nets}
        Z2   == {Zone("z2", d, f, n) : d \in D, f \in F, n \in nets}
        pair == {zz \in Z1 \X Z2 : Len(zz[1].networks) + Len(zz[2].networks) <= MaxBindings}
        inv(a, b) == [p \in Projects |-> IF p = "p1" THEN a ELSE b]
    IN  {inv(a, b) : a \in EmptyOrFailing, b \in EmptyOrFailing}
        \cup {inv(Listed(<<z>>), r) : z \in Z1, r \in Rest}
        \cup {inv(r, Listed(<<z>>)) : z \in Z1, r \in Rest}
        \cup {inv(Listed(<<zz[1], zz[2]>>), r) : zz \in pair, r \in Rest}
        \cup {inv(r, Listed(<<zz[1], zz[2]>>)) : zz \in pair, r \in Rest}
        \cup {inv(Listed(<<zz[1]>>), Listed(<<zz[2]>>)) : zz \in pair}

\* three families: every reference shape, every forwarding configuration, and
\* colliding DNS names with a malformed reference among plain ones
RefInventories  == Inventories({"corp.internal."}, {OneTarget}, AllRefs, Empty)
ZoneInventories == Inventories({"corp.internal."}, AllForwardings, PlainRefs, EmptyOrFailing)
NameInventories == Inventories(DnsNames, {OneTarget}, PlainRefs \cup {DictNoUrl},
                               EmptyOrFailing)

\* what `gcloud compute instances describe` answers
VmFails == [ok |-> FALSE, networkInterfaces |-> <<>>]
Vm(ifs) == [ok |-> TRUE, networkInterfaces |-> ifs]
VmResponses ==
    { VmFails, Vm(<<>>), Vm(<<NetUrl("p1", "vpc-a")>>),
      Vm(<<NetUrl("p1", "vpc-a"), NetUrl("p1", "vpc-b")>>) }

----------------------------------------------------------------------------
(* The code *)

\* the index of `network_url.split('/')[6]`
ProjectSegment == 6

\* an exception: its type and the function whose line raised it
Exception(t, f) == [type |-> t, raised_in |-> f]
NoException == Exception("none", "none")

\* run_cmd: the command fails (non-zero return code) or its JSON is returned
run_cmd_fails(response) == ~response.ok

\* faulty variant: every managed zone is returned, whatever its configuration
list_all_zones(zs) == zs

\* list_forwarding_zones: [zone for zone in zones if zone.get("forwardingConfig")]
RECURSIVE list_forwarding_zones(_)
list_forwarding_zones(zs) ==
    IF zs = <<>> THEN <<>>
    ELSE IF Head(zs).forwardingConfig.present
         THEN <<Head(zs)>> \o list_forwarding_zones(Tail(zs))
         ELSE list_forwarding_zones(Tail(zs))

\* net.get('networkUrl') if isinstance(net, dict) else net   (None when the key is missing)
network_url(net) ==
    IF net.isDict
    THEN [none |-> ~net.hasUrl, str |-> net.url]
    ELSE [none |-> FALSE, str |-> net.url]

\* network_url.split('/')[-1]
bound_vpc(url) ==
    LET segs == PySplit(url) IN segs[Len(segs)]

\* the test that picks the project out of the URL
HasProjectsMarker(url) == PyIn(<<Slash, "projects", Slash>>, url)

\* network_url.split('/')[6] if "/projects/" in network_url else vm_project
bound_project(url, vmp) ==
    IF HasProjectsMarker(url) THEN PySplit(url)[ProjectSegment + 1] ELSE vmp

\* the exception lines 105-106 raise for this reference, if any
binding_exception(net) ==
    LET u == network_url(net)
    IN  IF u.none THEN Exception("AttributeError", "analyze_forwarding_zones")
        ELSE IF HasProjectsMarker(u.str) /\ Len(PySplit(u.str)) < ProjectSegment + 1
             THEN Exception("IndexError", "analyze_forwarding_zones")
             ELSE NoException

\* faulty variant: `if bound_vpc:` in place of the comparison
binding_matches_any_name(url, vpc) == bound_vpc(url) # ""

\* if bound_vpc == vm_vpc
binding_matches(url, vpc) == bound_vpc(url) = vpc

\* zone["dnsName"] in dns_names_seen
is_duplicate_dns(zone, seen) == zone.dnsName \in seen

\* project != bound_project
is_cross_project(project, bp) == project # bp

\* the dict built at lines 112-123 (cross_direction None is the empty string here)
record(zone, project, url, vmp, seen) ==
    LET bp      == bound_project(url, vmp)
        ip_list == zone.forwardingConfig.targetNameServers
    IN  [ zone_name            |-> zone.name,
          dns_name             |-> zone.dnsName,
          source_project       |-> project,
          target_project       |-> bp,
          vpc_bindings         |-> bound_vpc(url),
          target_ips           |-> PyJoin(ip_list),
          is_cross_project     |-> is_cross_project(project, bp),
          cross_direction      |-> IF project # bp THEN <<project, " -> ", bp>> ELSE <<>>,
          is_duplicate_dns     |-> is_duplicate_dns(zone, seen),
          has_multiple_targets |-> Len(ip_list) > 1 ]

\* faulty variant: output.insert(0, record)
emit_in_front(out, rec) == <<rec>> \o out

\* output.append(record)
emit(out, rec) == Append(out, rec)

\* dns_names_seen.add(zone["dnsName"]), inside the `if`
seen_after_emit(zone, seen) == seen \cup {zone.dnsName}

\* faulty variant: the add dedented out of the `if`
seen_after_skip_adds(zone, seen) == seen \cup {zone.dnsName}

\* the `if` has no else: a binding that does not match leaves the set alone
seen_after_skip(zone, seen) == seen

\* faulty variant: a module-level set that is never cleared
seen_kept(old) == old

\* dns_names_seen = set()   (old is the value the previous call left behind)
fresh_seen(old) == {}

\* the locals of analyze_forwarding_zones outside the loops
NoLocals ==
    /\ pidx' = 0
    /\ zones' = <<>>
    /\ zidx' = 0
    /\ nidx' = 0

\* lines 90-91: a call of analyze_forwarding_zones starts
Enter(vmp, vpc, projects) ==
    /\ vm_project' = vmp
    /\ vm_vpc' = vpc
    /\ all_projects' = projects
    /\ output' = <<>>
    /\ dns_names_seen' = fresh_seen(dns_names_seen)
    /\ pidx' = 1
    /\ zones' = <<>>
    /\ zidx' = 0
    /\ nidx' = 0
    /\ pc' = "project"

\* faulty variant: `break` in place of `continue`
break_after_listing_failure(i, n) == n + 1

\* where the loop over projects goes after a listing failure: `continue`
after_listing_failure(i, n) == i + 1

\* faulty variant: no try/except around the listing: the exception leaves the function
ListingFailureUncaught(project) ==
    /\ exc' = Exception("CommandFailed", "list_forwarding_zones")
    /\ pc' = "raised"
    /\ UNCHANGED <<stdout, pidx, zones, zidx, nidx>>

\* lines 97-99: the failure is printed and the loop goes on
ListingFailure(project) ==
    /\ stdout' = Append(stdout, <<"failed", project>>)
    /\ pidx' = after_listing_failure(pidx, Len(all_projects))
    /\ UNCHANGED <<zones, zidx, nidx, pc, exc>>

\* lines 93-99 and 127: the head of `for project in all_projects`
NextProject ==
    /\ pc = "project"
    /\ IF pidx > Len(all_projects)
       THEN \* line 127: return output
            /\ pc' = "returned"
            /\ NoLocals
            /\ UNCHANGED <<stdout, gcloud_calls, exc>>
       ELSE LET project == all_projects[pidx] IN
            /\ gcloud_calls' = Append(gcloud_calls, <<"list", project>>)
            /\ IF run_cmd_fails(inventory[project])
               THEN ListingFailure(project)
               ELSE /\ zones' = list_forwarding_zones(inventory[project].zones)
                    /\ zidx' = 1
                    /\ pc' = "zone"
                    /\ UNCHANGED <<stdout, pidx, nidx, exc>>
    /\ UNCHANGED <<inventory, vm_project, vm_vpc, all_projects, output, dns_names_seen,
                   history>>

\* lines 101-102: the head of `for zone in zones`
NextZone ==
    /\ pc = "zone"
    /\ IF zidx > Len(zones)
       THEN /\ pidx' = pidx + 1
            /\ zones' = <<>>
            /\ zidx' = 0
            /\ pc' = "project"
            /\ UNCHANGED nidx
       ELSE /\ nidx' = 1
            /\ pc' = "net"
            /\ UNCHANGED <<pidx, zones, zidx>>
    /\ UNCHANGED <<inventory, vm_project, vm_vpc, all_projects, output, dns_names_seen,
                   exc, stdout, gcloud_calls, history>>

\* lines 103-125: one pass of `for net in networks`
NextNet ==
    /\ pc = "net"
    /\ LET zone     == zones[zidx]
           networks == zone.networks
       IN  IF nidx > Len(networks)
           THEN /\ zidx' = zidx + 1
                /\ nidx' = 0
                /\ pc' = "zone"
                /\ UNCHANGED <<pidx, zones, output, dns_names_seen, exc>>
           ELSE LET net == networks[nidx]
                    e   == binding_exception(net)
                    url == network_url(net).str
                IN  IF e # NoException
                    THEN \* the exception leaves analyze_forwarding_zones; its
                         \* traceback keeps the frame as it was at the raising line
                         /\ exc' = e
                         /\ pc' = "raised"
                         /\ UNCHANGED <<pidx, zones, zidx, nidx, output, dns_names_seen>>
                    ELSE /\ IF binding_matches(url, vm_vpc)
                            THEN /\ output' = emit(output,
                                        record(zone, all_projects[pidx], url, vm_project,
                                               dns_names_seen))
                                 /\ dns_names_seen' = seen_after_emit(zone, dns_names_seen)
                            ELSE /\ output' = output
                                 /\ dns_names_seen' = seen_after_skip(zone, dns_names_seen)
                         /\ nidx' = nidx + 1
                         /\ UNCHANGED <<pidx, zones, zidx, pc, exc>>
    /\ UNCHANGED <<inventory, vm_project, vm_vpc, all_projects, stdout, gcloud_calls,
                   history>>

----------------------------------------------------------------------------
(* main *)

NotResolved == ""

\* faulty variant: a failed resolution is swallowed and the run goes on without network
GetVpcNetworkSwallowing ==
    /\ pc = "main"
    /\ gcloud_calls' = Append(gcloud_calls, <<"describe", vm_project>>)
    /\ \E vm \in VmResponses :
         IF run_cmd_fails(vm) \/ vm.networkInterfaces = <<>>
         THEN /\ exc' = Exception("CommandFailed", "get_vpc_network")
              /\ pc' = "resolved"
              /\ UNCHANGED vm_vpc
         ELSE /\ vm_vpc' = bound_vpc(vm.networkInterfaces[1])
              /\ pc' = "resolved"
              /\ UNCHANGED exc
    /\ UNCHANGED <<inventory, vm_project, all_projects, pidx, zones, zidx, nidx, output,
                   dns_names_seen, stdout, history>>

\* lines 41-54: get_vpc_network, called at line 188
GetVpcNetwork ==
    /\ pc = "main"
    /\ gcloud_calls' = Append(gcloud_calls, <<"describe", vm_project>>)
    /\ \E vm \in VmResponses :
         IF run_cmd_fails(vm)
         THEN /\ exc' = Exception("CommandFailed", "get_vpc_network")
              /\ pc' = "raised"
              /\ UNCHANGED vm_vpc
         ELSE IF vm.networkInterfaces = <<>>
         THEN /\ exc' = Exception("IndexError", "get_vpc_network")
              /\ pc' = "raised"
              /\ UNCHANGED vm_vpc
         ELSE /\ vm_vpc' = bound_vpc(vm.networkInterfaces[1])
              /\ pc' = "resolved"
              /\ UNCHANGED exc
    /\ UNCHANGED <<inventory, vm_project, all_projects, pidx, zones, zidx, nidx, output,
                   dns_names_seen, stdout, history>>

\* line 189: main calls analyze_forwarding_zones
MainAnalyze ==
    /\ pc = "resolved"
    /\ Enter(vm_project, vm_vpc, all_projects)
    /\ UNCHANGED <<inventory, exc, stdout, gcloud_calls, history>>

\* line 190 and lines 132-167: print_report
PrintReport ==
    /\ pc = "returned"
    /\ stdout' = Append(stdout, <<"report", output>>)
    /\ pc' = "done"
    /\ UNCHANGED <<inventory, vm_project, vm_vpc, all_projects, pidx, zones, zidx, nidx,
                   output, dns_names_seen, exc, gcloud_calls, history>>

\* lines 191-196: the handler of main prints the error (its traceback with --debug)
MainExcept ==
    /\ pc = "raised"
    /\ stdout' = Append(stdout, <<"error", exc.type>>)
    /\ pc' = "done"
    /\ UNCHANGED <<inventory, vm_project, vm_vpc, all_projects, pidx, zones, zidx, nidx,
                   output, dns_names_seen, exc, gcloud_calls, history>>

AnalyzeNext == NextProject \/ NextZone \/ NextNet

\* lines 177-186: the arguments, and projects = [args.project] + args.extra_projects
Init ==
    /\ inventory \in RefInventories \cup ZoneInventories
    /\ vm_project \in Projects
    /\ \E extra \in SeqsUpTo(Projects, MaxProjects - 1) :
         all_projects = <<vm_project>> \o extra
    /\ vm_vpc = NotResolved
    /\ pidx = 0
    /\ zones = <<>>
    /\ zidx = 0
    /\ nidx = 0
    /\ output = <<>>
    /\ dns_names_seen = {}
    /\ pc = "main"
    /\ exc = NoException
    /\ stdout = <<>>
    /\ gcloud_calls = <<>>
    /\ history = <<>>

Next == GetVpcNetwork \/ MainAnalyze \/ AnalyzeNext \/ PrintReport \/ MainExcept

Spec == Init /\ [][Next]_vars

----------------------------------------------------------------------------
(* A caller that runs analyze_forwarding_zones twice against the same inventory *)

\* the orders a list can be put in
Orders(L) ==
    LET n == Len(L)
        P == {f \in [1..n -> 1..n] : \A i, j \in 1..n : f[i] = f[j] => i = j}
    IN  {[i \in 1..n |-> L[f[i]]] : f \in P}

\* L without the projects whose listing fails
RECURSIVE Listable(_)
Listable(L) ==
    IF L = <<>> THEN <<>>
    ELSE IF inventory[Head(L)].ok THEN <<Head(L)>> \o Listable(Tail(L))
         ELSE Listable(Tail(L))

\* the "Failed to retrieve zones" lines printed since the previous call ended
Reported ==
    LET from == IF history = <<>> THEN 0 ELSE Len(history[1].reported)
    IN  SubSeq(stdout, from + 1, Len(stdout))

\* line 79: a call; the second one with the same list, reordered or without the
\* projects that fail
CallerCall ==
    /\ pc = "caller"
    /\ IF history = <<>>
       THEN \E L \in SeqsUpTo(Projects, MaxProjects) : Enter(vm_project, vm_vpc, L)
       ELSE \E L \in Orders(history[1].projects) \cup {Listable(history[1].projects)} :
                Enter(vm_project, vm_vpc, L)
    /\ UNCHANGED <<inventory, exc, stdout, gcloud_calls, history>>

\* the caller receives the list or the exception
CallerCollect ==
    /\ pc \in {"returned", "raised"}
    /\ history' = Append(history,
                         [ projects |-> all_projects,
                           raised   |-> pc = "raised",
                           output   |-> IF pc = "raised" THEN <<>> ELSE output,
                           reported |-> Reported ])
    /\ pc' = IF history = <<>> THEN "caller" ELSE "done"
    /\ exc' = NoException
    /\ UNCHANGED <<inventory, vm_project, vm_vpc, all_projects, pidx, zones, zidx, nidx,
                   output, dns_names_seen, stdout, gcloud_calls>>

InitCalls ==
    /\ inventory \in NameInventories
    /\ vm_project \in Projects
    /\ vm_vpc = "vpc-a"
    /\ all_projects = <<>>
    /\ pidx = 0
    /\ zones = <<>>
    /\ zidx = 0
    /\ nidx = 0
    /\ output = <<>>
    /\ dns_names_seen = {}
    /\ pc = "caller"
    /\ exc = NoException
    /\ stdout = <<>>
    /\ gcloud_calls = <<>>
    /\ history = <<>>

NextCalls == CallerCall \/ AnalyzeNext \/ CallerCollect

SpecCalls == InitCalls /\ [][NextCalls]_vars

----------------------------------------------------------------------------
(* Vocabulary of the properties *)

Indices(q) == 1..Len(q)

\* the network identity a reference names: what follows its last slash
LastSegment(url) ==
    LET slashes == {i \in Indices(url) : url[i] = Slash}
        m       == IF slashes = {} THEN 0
                   ELSE CHOOSE i \in slashes : \A j \in slashes : j <= i
    IN  IF m = Len(url) THEN "" ELSE url[m + 1]

\* the reference carries a URL value and that value names the subject network
NamesSubject(net) == net.hasUrl /\ LastSegment(net.url) = vm_vpc

\* the zones of project p that reach the analyzer
ForwardingZones(p) ==
    IF inventory[p].ok
    THEN SelectSeq(inventory[p].zones, LAMBDA z : z.forwardingConfig.present)
    ELSE <<>>

\* the zone a record was built from
ZoneOf(r) ==
    CHOOSE z \in {inventory[r.source_project].zones[k] :
                    k \in Indices(inventory[r.source_project].zones)} :
        z.name = r.zone_name

RECURSIVE Flatten(_)
Flatten(qq) == IF qq = <<>> THEN <<>> ELSE Head(qq) \o Flatten(Tail(qq))

\* <<project, zone, k>> for the references of the zone that name the subject
\* network, in the order of the references
MatchesOfZone(p, z) ==
    LET all == [k \in Indices(z.networks) |-> <<p, z, k>>]
    IN  SelectSeq(all, LAMBDA t : NamesSubject(z.networks[t[3]]))

MatchesOfProject(p) ==
    LET zs == ForwardingZones(p)
    IN  Flatten([k \in Indices(zs) |-> MatchesOfZone(p, zs[k])])

\* project order outermost, then zone order, then reference order
Matches(L) == Flatten([k \in Indices(L) |-> MatchesOfProject(L[k])])

----------------------------------------------------------------------------
(* Properties *)

\* C2: at every point of a run every record of the output has its bound network
\* equal to the subject network, and at the end no zone without a reference to the
\* subject network has a record.
C2_OnlySubjectNetwork ==
    /\ \A i \in Indices(output) : output[i].vpc_bindings = vm_vpc
    /\ pc = "returned" =>
         \A i \in Indices(output) :
            \E k \in Indices(ZoneOf(output[i]).networks) :
                NamesSubject(ZoneOf(output[i]).networks[k])

\* a run that met a reference to another network and emitted a record
C2_Witness ==
    /\ pc = "returned"
    /\ output # <<>>
    /\ \E i \in Indices(all_projects) :
         LET zs == ForwardingZones(all_projects[i])
         IN  \E k \in Indices(zs) : \E n \in Indices(zs[k].networks) :
                /\ zs[k].networks[n].hasUrl
                /\ ~NamesSubject(zs[k].networks[n])

\* C3: a record is flagged duplicate iff an earlier record of the same run has its
\* dns_name, and the seen set is exactly the dns_names of the records emitted so
\* far (so a skipped binding adds nothing).
C3_DuplicateIffSeenBefore ==
    /\ \A i \in Indices(output) :
         output[i].is_duplicate_dns <=>
            \E j \in 1..(i - 1) : output[j].dns_name = output[i].dns_name
    /\ dns_names_seen = {output[i].dns_name : i \in Indices(output)}

\* a name flagged on its second occurrence, after a binding of a zone with another
\* name was skipped
C3_Witness ==
    /\ Len(output) >= 2
    /\ output[2].is_duplicate_dns
    /\ output[1].dns_name = output[2].dns_name
    /\ \E i \in Indices(all_projects) :
         LET zs == ForwardingZones(all_projects[i])
         IN  \E k \in Indices(zs) :
                /\ zs[k].dnsName \notin dns_names_seen
                /\ zs[k].networks # <<>>
                /\ i < pidx

\* C5: the returned sequence is the sequence of matching (project, zone, reference)
\* triples in scan order, one record each, nothing merged.
C5_OutputInScanOrder ==
    pc = "returned" =>
        LET m == Matches(all_projects)
        IN  /\ Len(output) = Len(m)
            /\ \A i \in Indices(output) :
                 /\ output[i].source_project = m[i][1]
                 /\ output[i].zone_name = m[i][2].name
                 /\ output[i].dns_name = m[i][2].dnsName

\* a zone that lists the subject network twice gave two records, in a run over
\* two projects
C5_Witness ==
    /\ pc = "returned"
    /\ Len(output) = 2
    /\ output[1].zone_name = output[2].zone_name
    /\ output[1].source_project = output[2].source_project
    /\ Len(all_projects) = 2
    /\ all_projects[1] # all_projects[2]

\* the project that owns the network a reference names: P for a resource path
\* .../projects/P/global/networks/N, the subject project for a bare identity
IsResourcePath(url) ==
    LET n == Len(url)
    IN  /\ n >= 9
        /\ SubSeq(url, n - 8, n - 7) = <<"projects", Slash>>
        /\ url[n - 6] # Slash
        /\ SubSeq(url, n - 5, n - 1) = <<Slash, "global", Slash, "networks", Slash>>
        /\ url[n] # Slash
        /\ n > 9 => url[n - 9] = Slash

IsBare(url) == Len(url) = 1 /\ url[1] # Slash

\* the reference the inner loop has just passed
JustPassed == zones[zidx].networks[nidx - 1]

\* C4 (as claimed): the record of a matching resource path .../projects/P/global/
\* networks/N has target_project P, that of a bare identity has the subject
\* project, and is_cross_project tells whether source and target project differ.
C4_TargetProjectFromPath ==
    (pc = "net" /\ nidx >= 2 /\ NamesSubject(JustPassed)) =>
        LET r   == output[Len(output)]
            url == JustPassed.url
        IN  /\ IsResourcePath(url) => r.target_project = url[Len(url) - 6]
            /\ IsBare(url) => r.target_project = vm_project
            /\ r.is_cross_project <=> r.source_project # r.target_project

Culprit == zones[zidx].networks[nidx]

\* a reference without URL value, or with the /projects/ marker and no segment at
\* the position the project is read from
Malformed(net) ==
    \/ ~net.hasUrl
    \/ /\ PyIn(<<Slash, "projects", Slash>>, net.url)
       /\ Cardinality({i \in Indices(net.url) : net.url[i] = Slash}) < ProjectSegment

C8_ResolutionFailureIsFatal ==
    exc.raised_in = "get_vpc_network" =>
        /\ pc \in {"raised", "done"}
        /\ gcloud_calls = << <<"describe", vm_project>> >>
        /\ vm_vpc = NotResolved
        /\ pidx = 0
        /\ output = <<>>
        /\ pc = "raised" => stdout = <<>>
        /\ pc = "done" =>
             /\ Len(stdout) = 1
             /\ stdout[1][1] = "error"

\* the run of a VM without network interface has ended
C8_Witness ==
    /\ pc = "done"
    /\ exc = Exception("IndexError", "get_vpc_network")

\* C10 (as claimed): a malformed reference is skipped: no exception leaves the
\* analyzer, and a run that resolved its network ends with the report.
C10_MalformedReferenceSkipped ==
    /\ exc.raised_in # "analyze_forwarding_zones"
    /\ (pc = "done" /\ vm_vpc # NotResolved) => stdout[Len(stdout)][1] = "report"

----------------------------------------------------------------------------
(* Properties of two calls *)

\* how often the failure of project p was printed
TimesReported(h, p) ==
    Cardinality({i \in Indices(h.reported) : h.reported[i] = <<"failed", p>>})

Fails(p) == ~inventory[p].ok

\* the failures a call over L prints: one line for each place of a failing project
RECURSIVE FailureLines(_)
FailureLines(L) ==
    IF L = <<>> THEN <<>>
    ELSE IF Fails(Head(L)) THEN << <<"failed", Head(L)>> >> \o FailureLines(Tail(L))
         ELSE FailureLines(Tail(L))

SecondWithoutFailing ==
    /\ pc = "done"
    /\ history[2].projects = Listable(history[1].projects)

\* C1 (as claimed): the call ends as the call on the list without the failing
\* projects does, with the same records, and each failing project is reported once.
C1_FailingProjectsSkipped ==
    /\ SecondWithoutFailing =>
         /\ history[1].raised = history[2].raised
         /\ history[1].output = history[2].output
    /\ \A k \in Indices(history) :
         \A p \in {history[k].projects[i] : i \in Indices(history[k].projects)} :
            (Fails(p) /\ ~history[k].raised) => TimesReported(history[k], p) = 1

\* C1 (amended): the same, with each failing project reported once for each place
\* it has in the list that the loop reached.
C1_FailingProjectsSkippedPerPlace ==
    /\ SecondWithoutFailing =>
         /\ history[1].raised = history[2].raised
         /\ history[1].output = history[2].output
         /\ history[2].reported = <<>>
    /\ \A k \in Indices(history) :
         ~history[k].raised => history[k].reported = FailureLines(history[k].projects)

\* a list with a failing and a listable project, whose records came back
C1_Witness ==
    /\ SecondWithoutFailing
    /\ history[2].projects # history[1].projects
    /\ history[1].reported # <<>>
    /\ history[1].output # <<>>

\* C7: two calls whose lists are permutations of each other end alike and return
\* the same number of records; in every call the first record of a dns_name is not
\* flagged and every later one is.
C7_OrderKeepsCount ==
    /\ (pc = "done" /\ history[2].projects \in Orders(history[1].projects)) =>
         /\ history[1].raised = history[2].raised
         /\ Len(history[1].output) = Len(history[2].output)
    /\ \A k \in Indices(history) :
         LET out == history[k].output
         IN  \A i \in Indices(out) :
                out[i].is_duplicate_dns <=>
                    \E j \in 1..(i - 1) : out[j].dns_name = out[i].dns_name

\* two projects swapped: the flag moved to the other project's record
C7_Witness ==
    /\ pc = "done"
    /\ history[2].projects # history[1].projects
    /\ history[2].projects \in Orders(history[1].projects)
    /\ Len(history[1].output) = 2
    /\ history[1].output[2].is_duplicate_dns
    /\ history[2].output[2].is_duplicate_dns
    /\ history[1].output[2].source_project # history[2].output[2].source_project

\* C9: a second call with the same arguments against the same inventory returns
\* what the first returned, flags included, and prints what the first printed.
C9_SecondCallIdentical ==
    (pc = "done" /\ history[2].projects = history[1].projects) =>
        history[2] = history[1]

\* both calls returned records, one of them flagged
C9_Witness ==
    /\ pc = "done"
    /\ history[2].projects = history[1].projects
    /\ \E i \in Indices(history[2].output) : history[2].output[i].is_duplicate_dns
    /\ \E i \in Indices(history[2].output) : ~history[2].output[i].is_duplicate_dns

====
